---- MODULE Spec2Model ----
(***************************************************************************)
(* Model of the query resolution core of resolver/resolve.go: Resolve,     *)
(* checkCache, deduplicateRequest, resolveAndCache, shouldResetCache and   *)
(* testConnectivity, with the collaborators (record store, resolver        *)
(* registry, resolver connections, network environment) as shared state.   *)
(***************************************************************************)
EXTENDS Integers, Sequences, FiniteSets, TLC

\* ------------------------------------------------------------------ bounds
NumCallers == 2
NumResolvers == 2
MaxTime == 3
MaxRun == 24
MaxScope == 2

\* maxRequestTimeout, in clock ticks (the constant is defined outside resolve.go)
maxRequestTimeout == 2

Callers == 1..NumCallers
\* process 0 is the worker that runs "resolve async" (module.StartWorker)
Worker == 0
Procs == 0..NumCallers
ResolverIDs == 1..NumResolvers

\* ------------------------------------------------------------- option type
None == <<>>
Some(x) == <<x>>

\* ------------------------------------------------------------------ errors
\* An error is its wrap chain, outermost first; nil is the empty chain.
NoErr == <<>>
ErrNotFound == <<"ErrNotFound">>
ErrBlocked == <<"ErrBlocked">>
ErrLocalhost == <<"ErrLocalhost">>
ErrTimeout == <<"ErrTimeout">>
ErrOffline == <<"ErrOffline">>
ErrFailure == <<"ErrFailure">>
ErrContinue == <<"ErrContinue">>
ErrShuttingDown == <<"ErrShuttingDown">>
ErrTestDomainsDisabled == <<"ErrTestDomainsDisabled", "ErrBlocked">>
ErrSpecialDomainsDisabled == <<"ErrSpecialDomainsDisabled", "ErrBlocked">>
ErrInvalid == <<"ErrInvalid", "ErrNotFound">>
ErrNoCompliance == <<"ErrNoCompliance", "ErrBlocked">>
BlockedUpstreamError == <<"BlockedUpstreamError", "ErrBlocked">>
ctxCanceled == <<"context.Canceled">>
ctxDeadlineExceeded == <<"context.DeadlineExceeded">>

\* errors.Is: some suffix of err's wrap chain is the target
Is(err, target) ==
    /\ target # <<>>
    /\ \E n \in 1..Len(err) : SubSeq(err, n, Len(err)) = target

\* fmt.Errorf("all %d query-compliant resolvers failed, last error: %w", ...)
AllFailed(err) == <<"all query-compliant resolvers failed">> \o err

\* ----------------------------------------------------------------- queries
\* dns.Fqdn: append the trailing dot when it is missing
Fqdn(name) ==
    CASE name = "a" -> "a."
      [] name = "c" -> "c."
      [] name = "t" -> "t."
      [] OTHER -> name

\* netenv.DNSTestDomain and netenv.IsConnectivityDomain
DNSTestDomain == "t."
IsConnectivityDomain(fqdn) == fqdn = "c."

\* Query.check: ok, and the query with its FQDN in canonical form
QueryCheckOk(qr) == qr.fqdn # ""
QueryChecked(qr) == [qr EXCEPT !.fqdn = Fqdn(qr.fqdn)]

\* Query.ID: FQDN followed by the question type (always A here)
ID(qr) == qr.fqdn \o "A"

Keys == {"a.A", "c.A", "t.A"}
NoQuery == [fqdn |-> "", noCaching |-> FALSE]

\* ------------------------------------------------------------- RRCache
RCodes == {"Success", "NameError", "Refused"}

\* RRCache.Cacheable: false for NXDomain or an otherwise non-storable record
Cacheable(rr) == rr.storable /\ rr.rcode # "NameError"

\* RRCache.Expired / RRCache.ExpiresSoon on the abstract remaining lifetime
Expired(rr) == rr.life = "expired"
ExpiresSoon(rr) == rr.life # "fresh"

\* RRCache.Clean(minTTL): TTLs clamped to [minTTL, maxTTL], so the record
\* has at least minTTL > refreshTTL of lifetime left
Clean(rr) == [rr EXCEPT !.cleaned = TRUE, !.life = "fresh"]

\* what a resolver connection can answer with: a response or an error
Response(rc, st, r) ==
    [rcode |-> rc, storable |-> st, resolver |-> r, life |-> "fresh",
     cleaned |-> FALSE, isBackup |-> FALSE, requestingNew |-> FALSE,
     fromStore |-> FALSE, regAtRead |-> TRUE]
\* fromStore and regAtRead only observe: whether the record was loaded by
\* GetRRCache, and whether its resolver was registered when checkCache read it

QueryErrors ==
    {ErrNotFound, ErrBlocked, BlockedUpstreamError, ErrContinue, ErrTimeout,
     ctxCanceled, ctxDeadlineExceeded, ErrShuttingDown, ErrFailure}

\* ------------------------------------------------------------------ state
VARIABLES
    now,            \* the clock, in ticks
    store,          \* record store: key -> stored RRCache (option)
    active,         \* resolver registry: IDs of the active resolvers
    failing,        \* resolvers whose Conn.IsFailing() is true
    online,         \* netenv.GetOnlineStatus() # StatusOffline
    stopping,       \* module.IsStopping()
    dupReqMap,      \* dedupe registry: key -> owner of the registered status, 0 if none
    dd,             \* dedupeStatus objects, by the process that created them
    cacheResetID,   \* shouldResetCache: last query ID
    cacheResetSeenCnt,  \* shouldResetCache: counter
    pc,             \* per process: where it stands
    q,              \* per process: the query
    cache,          \* per process: rrCache of Resolve / oldCache of resolveAndCache
    wt,             \* per process: the dedupe wait (status waited on, timer)
    run,            \* per process: locals of resolveAndCache
    ret,            \* per process: the returned (rrCache, err)
    h,              \* per process: history of the current call (observation only)
    rh              \* history of the shouldResetCache calls (observation only)

vars == <<now, store, active, failing, online, stopping, dupReqMap, dd,
          cacheResetID, cacheResetSeenCnt, pc, q, cache, wt, run, ret, h, rh>>

envVars == <<now, store, active, failing, online, stopping>>
dedupeVars == <<dupReqMap, dd>>
resetVars == <<cacheResetID, cacheResetSeenCnt>>
procVars == <<pc, q, cache, wt, run, ret, h>>

\* ------------------------------------------------------- shouldResetCache
\* shouldResetCache(q) on the counter (lastID, cnt): the result and the new counter
shouldResetCache_NoOffset(qID, lastID, cnt) ==
    IF qID # lastID
    THEN [reset |-> FALSE, id |-> qID, cnt |-> 1]
    ELSE IF cnt + 1 >= 3
         THEN [reset |-> TRUE, id |-> lastID, cnt |-> 0]
         ELSE [reset |-> FALSE, id |-> lastID, cnt |-> cnt + 1]

shouldResetCache_AtTwo(qID, lastID, cnt) ==
    IF qID # lastID
    THEN [reset |-> FALSE, id |-> qID, cnt |-> 1]
    ELSE IF cnt + 1 >= 2
         THEN [reset |-> TRUE, id |-> lastID, cnt |-> -7]
         ELSE [reset |-> FALSE, id |-> lastID, cnt |-> cnt + 1]

shouldResetCache(qID, lastID, cnt) ==
    IF qID # lastID
    THEN [reset |-> FALSE, id |-> qID, cnt |-> 1]
    ELSE IF cnt + 1 >= 3
         THEN [reset |-> TRUE, id |-> lastID, cnt |-> -7]
         ELSE [reset |-> FALSE, id |-> lastID, cnt |-> cnt + 1]

\* The observer of a sequence of shouldResetCache calls:
\*   runLen  length of the current run of calls with the same ID
\*   reset   what the last call returned
\*   since   per ID, the calls with that ID since it last returned true (-1: never)
\*   mixed   per ID, whether a call with another ID came since it last returned true
\*   gap     on a true return, the calls with that ID since its previous true (-1: none)
\*   gapMixed  on a true return, whether a call with another ID came in between
RhInit ==
    [runLen |-> 0, reset |-> FALSE, since |-> [k \in Keys |-> -1],
     mixed |-> [k \in Keys |-> FALSE], gap |-> -1, gapMixed |-> FALSE]

RhNext(qID, res) ==
    [runLen |-> IF qID = cacheResetID THEN rh.runLen + 1 ELSE 1,
     reset |-> res.reset,
     since |-> [k \in Keys |->
                 IF k = qID
                 THEN IF res.reset THEN 0
                      ELSE IF rh.since[k] >= 0 THEN rh.since[k] + 1 ELSE -1
                 ELSE rh.since[k]],
     mixed |-> [k \in Keys |->
                 IF k = qID THEN (IF res.reset THEN FALSE ELSE rh.mixed[k])
                 ELSE rh.since[k] >= 0],
     gap |-> IF res.reset /\ rh.since[qID] >= 0 THEN rh.since[qID] + 1 ELSE -1,
     gapMixed |-> res.reset /\ rh.mixed[qID]]

\* one call of shouldResetCache, for a query with ID qID
ShouldResetCall(qID) ==
    /\ rh.runLen < MaxRun \/ qID # cacheResetID
    /\ rh.since[qID] < MaxRun
    /\ LET res == shouldResetCache(qID, cacheResetID, cacheResetSeenCnt)
       IN /\ cacheResetID' = res.id
          /\ cacheResetSeenCnt' = res.cnt
          /\ rh' = RhNext(qID, res)
    /\ UNCHANGED <<envVars, dedupeVars, procVars>>

\* ------------------------------------------------------------- checkCache
\* ResetCachedRecord: the record is deleted from the store
ResetCachedRecord(st, key) == [st EXCEPT ![key] = None]

\* checkCache(ctx, q): what it returns, the new reset counter, the new store and
\* whether it started the "resolve async" worker. compl is the answer of the
\* cached record's resolver to checkCompliance(ctx, q).
checkCache_NoRegistryCheck(qr, compl) ==
    LET key == ID(qr)
        miss == [ret |-> None, id |-> cacheResetID, cnt |-> cacheResetSeenCnt,
                 store |-> store, spawn |-> FALSE]
    IN  IF IsConnectivityDomain(qr.fqdn) THEN miss
        ELSE IF store[key] = None THEN miss
        ELSE
          LET rrCache == [store[key][1] EXCEPT
                            !.fromStore = TRUE,
                            !.regAtRead = (store[key][1].resolver \in active)]
              res == shouldResetCache(key, cacheResetID, cacheResetSeenCnt)
              counted == [miss EXCEPT !.id = res.id, !.cnt = res.cnt]
          IN  IF ~compl THEN miss
              ELSE IF res.reset
                   THEN [counted EXCEPT !.store = ResetCachedRecord(store, key)]
              ELSE IF Expired(rrCache)
                   THEN IF rrCache.rcode = "Success"
                        THEN [counted EXCEPT !.ret = Some(rrCache)]
                        ELSE counted
              ELSE IF ExpiresSoon(rrCache)
                   THEN [counted EXCEPT
                           !.ret = Some([rrCache EXCEPT !.requestingNew = TRUE]),
                           !.spawn = TRUE]
              ELSE [counted EXCEPT !.ret = Some(rrCache)]

checkCache_NoSpawn(qr, compl) ==
    LET key == ID(qr)
        miss == [ret |-> None, id |-> cacheResetID, cnt |-> cacheResetSeenCnt,
                 store |-> store, spawn |-> FALSE]
    IN  IF IsConnectivityDomain(qr.fqdn) THEN miss
        ELSE IF store[key] = None THEN miss
        ELSE
          LET rrCache == [store[key][1] EXCEPT
                            !.fromStore = TRUE,
                            !.regAtRead = (store[key][1].resolver \in active)]
              res == shouldResetCache(key, cacheResetID, cacheResetSeenCnt)
              counted == [miss EXCEPT !.id = res.id, !.cnt = res.cnt]
          IN  IF rrCache.resolver \notin active THEN miss
              ELSE IF ~compl THEN miss
              ELSE IF res.reset
                   THEN [counted EXCEPT !.store = ResetCachedRecord(store, key)]
              ELSE IF Expired(rrCache)
                   THEN IF rrCache.rcode = "Success"
                        THEN [counted EXCEPT !.ret = Some(rrCache)]
                        ELSE counted
              ELSE IF ExpiresSoon(rrCache)
                   THEN [counted EXCEPT
                           !.ret = Some([rrCache EXCEPT !.requestingNew = TRUE])]
              ELSE [counted EXCEPT !.ret = Some(rrCache)]

checkCache(qr, compl) ==
    LET key == ID(qr)
        miss == [ret |-> None, id |-> cacheResetID, cnt |-> cacheResetSeenCnt,
                 store |-> store, spawn |-> FALSE]
    IN  IF IsConnectivityDomain(qr.fqdn) THEN miss
        ELSE IF store[key] = None THEN miss
        ELSE
          LET rrCache == [store[key][1] EXCEPT
                            !.fromStore = TRUE,
                            !.regAtRead = (store[key][1].resolver \in active)]
              res == shouldResetCache(key, cacheResetID, cacheResetSeenCnt)
              counted == [miss EXCEPT !.id = res.id, !.cnt = res.cnt]
          IN  IF rrCache.resolver \notin active THEN miss
              ELSE IF ~compl THEN miss
              ELSE IF res.reset
                   THEN [counted EXCEPT !.store = ResetCachedRecord(store, key)]
              ELSE IF Expired(rrCache)
                   THEN IF rrCache.rcode = "Success"
                        THEN [counted EXCEPT !.ret = Some(rrCache)]
                        ELSE counted
              ELSE IF ExpiresSoon(rrCache)
                   THEN [counted EXCEPT
                           !.ret = Some([rrCache EXCEPT !.requestingNew = TRUE]),
                           !.spawn = TRUE]
              ELSE [counted EXCEPT !.ret = Some(rrCache)]

\* ------------------------------------------------------------ initial state
RunInit ==
    [resolvers |-> <<>>, primarySource |-> "", tryAll |-> FALSE,
     i |-> 0, idx |-> 0, rrCache |-> None, err |-> NoErr]
WtInit == [on |-> 0, at |-> 0, released |-> FALSE]
\* (gen only observes: how many statuses were superseded in a row before
\* this one was registered)
DdInit ==
    [key |-> "", waitUntil |-> 0, superseded |-> FALSE, held |-> FALSE, gen |-> 0]
RetInit == [rrCache |-> None, err |-> NoErr]

\* The observer of one call:
\*   kind      "resolve", "direct" (resolveAndCache called directly), "async",
\*             "probe" (testConnectivity) or "dedupe" (deduplicateRequest alone)
\*   nq        Conn.Query invocations of the call
\*   fresh     at Resolve's entry the store held a usable fresh entry for the query
\*   pass      fresh, the query passed its checks and the reset counter did not trip
\*   lastq     pass and index of the call's last Conn.Query
\*   ordOK     every Conn.Query so far came later in (pass, index) than the one before
\*   qFailing  a resolver with IsFailing() true was queried in pass 0
\*   elected   a response was elected, and in which pass (-1: none)
\*   ended     how resolveAndCache came to return
\*   saved     what became of rrCache.Save(): "no" (not called), "ok", "failed"
\*   fx        what the last Conn.Query result led to: "report" (ReportFailure),
\*             "reset" (ResetFailure) or "none"; fxOn: the resolver queried
\*   resets    ResetFailure calls of the call
\*   soon      at Resolve's entry the query passed its checks and the store held
\*             a usable entry for it that expires soon
\*   soonPass  soon, and the reset counter did not trip
HInit ==
    [kind |-> "", nq |-> 0, fresh |-> FALSE, pass |-> FALSE, lastq |-> <<-1, 0>>,
     ordOK |-> TRUE, qFailing |-> FALSE, elected |-> -1, ended |-> "",
     saved |-> "no", fx |-> "none", fxOn |-> 0, resets |-> 0,
     soon |-> FALSE, soonPass |-> FALSE]

\* a record as it lies in the store at the start: saved by an earlier run, so
\* cacheable and cleaned
Preloaded(rc, r) ==
    [Response(rc, TRUE, r) EXCEPT !.cleaned = TRUE]

InitStores ==
    {[k \in Keys |-> None]} \cup
    {[k \in Keys |-> IF k = "a.A" THEN Some(Preloaded(rc, 1)) ELSE None] :
        rc \in {"Success", "Refused"}}

InitWith(st) ==
    /\ now = 0
    /\ store = st
    /\ active = ResolverIDs
    /\ failing = {}
    /\ online = TRUE
    /\ stopping = FALSE
    /\ dupReqMap = [k \in Keys |-> 0]
    /\ dd = [p \in Callers |-> DdInit]
    /\ cacheResetID = ""
    /\ cacheResetSeenCnt = 0
    /\ pc = [p \in Procs |-> "idle"]
    /\ q = [p \in Procs |-> NoQuery]
    /\ cache = [p \in Procs |-> None]
    /\ wt = [p \in Procs |-> WtInit]
    /\ run = [p \in Procs |-> RunInit]
    /\ ret = [p \in Procs |-> RetInit]
    /\ h = [p \in Procs |-> HInit]
    /\ rh = RhInit

Init == \E st \in InitStores : InitWith(st)

\* ---------------------------------------------------------------- Resolve
\* whether the store holds, for the query, an entry that is neither expired nor
\* expiring soon and whose resolver is registered
HoldsFresh(qr) ==
    /\ ~IsConnectivityDomain(qr.fqdn)
    /\ store[ID(qr)] # None
    /\ store[ID(qr)][1].life = "fresh"
    /\ store[ID(qr)][1].resolver \in active

HoldsSoon(qr) ==
    /\ ~IsConnectivityDomain(qr.fqdn)
    /\ store[ID(qr)] # None
    /\ store[ID(qr)][1].life = "soon"
    /\ store[ID(qr)][1].resolver \in active

\* Resolve lines 181-184 and 190-193: consult the cache; an entry that is not
\* expired is returned, anything else goes on to `next` as rrCache
CacheGate(p, qr, compl, next, hp) ==
    LET cc == checkCache(qr, compl)
        hit == cc.ret # None /\ ~Expired(cc.ret[1])
    IN  /\ cc.spawn => pc[Worker] = "idle"
        /\ cacheResetID' = cc.id
        /\ cacheResetSeenCnt' = cc.cnt
        /\ store' = cc.store
        /\ pc' = [pc EXCEPT ![p] = IF hit THEN "done" ELSE next,
                            ![Worker] = IF cc.spawn THEN "rac" ELSE @]
        /\ q' = [q EXCEPT ![p] = qr, ![Worker] = IF cc.spawn THEN qr ELSE @]
        /\ cache' = [cache EXCEPT ![p] = IF hit THEN None ELSE cc.ret]
        /\ ret' = [ret EXCEPT ![p] = IF hit THEN [rrCache |-> cc.ret, err |-> NoErr]
                                      ELSE @]
        /\ h' = [h EXCEPT ![p] = hp,
                          ![Worker] = IF cc.spawn THEN [HInit EXCEPT !.kind = "async"]
                                      ELSE @]

\* Resolve(ctx, q) up to the first suspension point. qcomp is what
\* q.checkCompliance() returns, compl what the cached record's resolver answers.
Resolve(p, qr, qcomp, compl) ==
    /\ p \in Callers
    /\ pc[p] = "idle"
    /\ LET qn == QueryChecked(qr)
           hp == [HInit EXCEPT
                    !.kind = "resolve",
                    !.fresh = QueryCheckOk(qr) /\ ~qr.noCaching /\ compl
                              /\ HoldsFresh(qn),
                    !.pass = QueryCheckOk(qr) /\ ~qr.noCaching /\ compl
                             /\ HoldsFresh(qn) /\ qcomp = NoErr
                             /\ ~(cacheResetID = ID(qn) /\ cacheResetSeenCnt + 1 >= 3),
                    !.soon = QueryCheckOk(qr) /\ ~qr.noCaching /\ compl
                             /\ HoldsSoon(qn) /\ qcomp = NoErr,
                    !.soonPass = QueryCheckOk(qr) /\ ~qr.noCaching /\ compl
                             /\ HoldsSoon(qn) /\ qcomp = NoErr
                             /\ ~(cacheResetID = ID(qn) /\ cacheResetSeenCnt + 1 >= 3)]
       IN  IF ~QueryCheckOk(qr) \/ qcomp # NoErr
           THEN /\ pc' = [pc EXCEPT ![p] = "done"]
                /\ q' = [q EXCEPT ![p] = IF QueryCheckOk(qr) THEN qn ELSE qr]
                /\ ret' = [ret EXCEPT ![p] =
                             [rrCache |-> None,
                              err |-> IF ~QueryCheckOk(qr) THEN ErrInvalid ELSE qcomp]]
                /\ h' = [h EXCEPT ![p] = hp]
                /\ UNCHANGED <<store, resetVars, cache>>
           ELSE IF ~qn.noCaching
           THEN CacheGate(p, qn, compl, "dedupe", hp)
           ELSE /\ pc' = [pc EXCEPT ![p] = "rac"]
                /\ q' = [q EXCEPT ![p] = qn]
                /\ h' = [h EXCEPT ![p] = hp]
                /\ UNCHANGED <<store, resetVars, cache, ret>>
    /\ UNCHANGED <<now, active, failing, online, stopping, dedupeVars, wt, run, rh>>

\* ------------------------------------------------------ deduplicateRequest
\* deduplicateRequest under dupReqLock: wait for the registered status while
\* its waitUntil lies ahead; otherwise (none, or it took too long: mark it
\* superseded) register a new status and go on as the one doing the request
deduplicateRequest_NoTimeCheck(p) ==
    /\ p \in Callers
    /\ pc[p] = "dedupe"
    /\ LET dupKey == ID(q[p])
           o == dupReqMap[dupKey]
       IN  /\ dd' = [c \in Callers |->
                      IF c = p
                      THEN [key |-> dupKey, waitUntil |-> now + maxRequestTimeout,
                            superseded |-> FALSE, held |-> TRUE,
                            gen |-> IF o # 0 THEN dd[o].gen + 1 ELSE 0]
                      ELSE IF c = o THEN [dd[c] EXCEPT !.superseded = TRUE]
                      ELSE dd[c]]
           /\ dupReqMap' = [dupReqMap EXCEPT ![dupKey] = p]
           /\ pc' = [pc EXCEPT ![p] = "rac"]
           /\ UNCHANGED wt
    /\ UNCHANGED <<envVars, resetVars, q, cache, run, ret, h, rh>>

deduplicateRequest_NoSupersede(p) ==
    /\ p \in Callers
    /\ pc[p] = "dedupe"
    /\ LET dupKey == ID(q[p])
           o == dupReqMap[dupKey]
       IN  IF o # 0
           THEN /\ pc' = [pc EXCEPT ![p] = "waiting"]
                /\ wt' = [wt EXCEPT ![p] = [on |-> o, at |-> now + maxRequestTimeout,
                                            released |-> ~dd[o].held]]
                /\ UNCHANGED dedupeVars
           ELSE /\ dd' = [dd EXCEPT ![p] =
                           [key |-> dupKey, waitUntil |-> now + maxRequestTimeout,
                            superseded |-> FALSE, held |-> TRUE, gen |-> 0]]
                /\ dupReqMap' = [dupReqMap EXCEPT ![dupKey] = p]
                /\ pc' = [pc EXCEPT ![p] = "rac"]
                /\ UNCHANGED wt
    /\ UNCHANGED <<envVars, resetVars, q, cache, run, ret, h, rh>>

deduplicateRequest_NoMark(p) ==
    /\ p \in Callers
    /\ pc[p] = "dedupe"
    /\ LET dupKey == ID(q[p])
           o == dupReqMap[dupKey]
       IN  IF o # 0 /\ now < dd[o].waitUntil
           THEN /\ pc' = [pc EXCEPT ![p] = "waiting"]
                /\ wt' = [wt EXCEPT ![p] = [on |-> o, at |-> now + maxRequestTimeout,
                                            released |-> ~dd[o].held]]
                /\ UNCHANGED dedupeVars
           ELSE /\ dd' = [dd EXCEPT ![p] =
                           [key |-> dupKey, waitUntil |-> now + maxRequestTimeout,
                            superseded |-> FALSE, held |-> TRUE,
                            gen |-> IF o # 0 THEN dd[o].gen + 1 ELSE 0]]
                /\ dupReqMap' = [dupReqMap EXCEPT ![dupKey] = p]
                /\ pc' = [pc EXCEPT ![p] = "rac"]
                /\ UNCHANGED wt
    /\ UNCHANGED <<envVars, resetVars, q, cache, run, ret, h, rh>>

deduplicateRequest(p) ==
    /\ p \in Callers
    /\ pc[p] = "dedupe"
    /\ LET dupKey == ID(q[p])
           o == dupReqMap[dupKey]
       IN  IF o # 0 /\ now < dd[o].waitUntil
           THEN /\ pc' = [pc EXCEPT ![p] = "waiting"]
                /\ wt' = [wt EXCEPT ![p] = [on |-> o, at |-> now + maxRequestTimeout,
                                            released |-> ~dd[o].held]]
                /\ UNCHANGED dedupeVars
           ELSE /\ dd' = [c \in Callers |->
                           IF c = p
                           THEN [key |-> dupKey, waitUntil |-> now + maxRequestTimeout,
                                 superseded |-> FALSE, held |-> TRUE,
                                 gen |-> IF o # 0 THEN dd[o].gen + 1 ELSE 0]
                           ELSE IF c = o THEN [dd[c] EXCEPT !.superseded = TRUE]
                           ELSE dd[c]]
                /\ dupReqMap' = [dupReqMap EXCEPT ![dupKey] = p]
                /\ pc' = [pc EXCEPT ![p] = "rac"]
                /\ UNCHANGED wt
    /\ UNCHANGED <<envVars, resetVars, q, cache, run, ret, h, rh>>

\* the wait of deduplicateRequest ends with the status completed: return nil
WaitCompleted(p) ==
    /\ pc[p] = "waiting"
    /\ wt[p].released
    /\ pc' = [pc EXCEPT ![p] = "recheck"]
    /\ wt' = [wt EXCEPT ![p] = WtInit]
    /\ UNCHANGED <<envVars, dedupeVars, resetVars, q, cache, run, ret, h, rh>>

\* the wait ends with ctx.Done(): return nil
WaitCancelled(p) ==
    /\ pc[p] = "waiting"
    /\ pc' = [pc EXCEPT ![p] = "recheck"]
    /\ wt' = [wt EXCEPT ![p] = WtInit]
    /\ UNCHANGED <<envVars, dedupeVars, resetVars, q, cache, run, ret, h, rh>>

\* Resolve lines 188-195: deduplicateRequest returned nil, so recheck the
\* cache and, on a miss, go ahead and query
Recheck(p, compl) ==
    /\ pc[p] = "recheck"
    /\ CacheGate(p, q[p], compl, "rac", h[p])
    /\ UNCHANGED <<now, active, failing, online, stopping, dedupeVars, wt, run, rh>>

\* the wait ends with time.After(maxRequestTimeout): goto retry
WaitTimeout(p) ==
    /\ pc[p] = "waiting"
    /\ now >= wt[p].at
    /\ pc' = [pc EXCEPT ![p] = "dedupe"]
    /\ wt' = [wt EXCEPT ![p] = WtInit]
    /\ UNCHANGED <<envVars, dedupeVars, resetVars, q, cache, run, ret, h, rh>>

\* the function deduplicateRequest returned (deferred by Resolve): close
\* status.completed and, unless superseded, delete the key from the registry
Finish_NoDelete(p) ==
    /\ pc[p] = "finish"
    /\ dd' = [dd EXCEPT ![p].held = FALSE]
    /\ wt' = [w \in Procs |->
                IF pc[w] = "waiting" /\ wt[w].on = p
                THEN [wt[w] EXCEPT !.released = TRUE] ELSE wt[w]]
    /\ dupReqMap' = dupReqMap
    /\ pc' = [pc EXCEPT ![p] = "done"]
    /\ UNCHANGED <<envVars, resetVars, q, cache, run, ret, h, rh>>

Finish(p) ==
    /\ pc[p] = "finish"
    /\ dd' = [dd EXCEPT ![p].held = FALSE]
    /\ wt' = [w \in Procs |->
                IF pc[w] = "waiting" /\ wt[w].on = p
                THEN [wt[w] EXCEPT !.released = TRUE] ELSE wt[w]]
    /\ dupReqMap' = IF ~dd[p].superseded
                    THEN [dupReqMap EXCEPT ![dd[p].key] = 0]
                    ELSE dupReqMap
    /\ pc' = [pc EXCEPT ![p] = "done"]
    /\ UNCHANGED <<envVars, resetVars, q, cache, run, ret, h, rh>>

\* -------------------------------------------------------- resolveAndCache
ServerSourceConfigured == "config"
ServerSourceOperatingSystem == "system"
ServerSourceEnv == "env"

\* what Conn.Query can return: an error, a response, or neither
ErrShape(e) == [kind |-> "err", err |-> e, rcode |-> "", storable |-> FALSE]
RespShape(rc, st) == [kind |-> "resp", err |-> NoErr, rcode |-> rc, storable |-> st]
NilShape == [kind |-> "nil", err |-> NoErr, rcode |-> "", storable |-> FALSE]
\* (the signature also lets a connection return a response along with an error)
BothShape(e, rc) == [kind |-> "both", err |-> e, rcode |-> rc, storable |-> TRUE]

QueryShapes ==
    {ErrShape(e) : e \in QueryErrors}
    \cup {RespShape(rc, st) : rc \in {"Success", "Refused"}, st \in BOOLEAN}
    \cup {RespShape("NameError", FALSE), NilShape}

\* the (rrCache, err) that resolver r returns for a shape
Outcome(shape, r) ==
    IF shape.kind = "resp"
    THEN [rrCache |-> Some(Response(shape.rcode, shape.storable, r)), err |-> NoErr]
    ELSE IF shape.kind = "both"
    THEN [rrCache |-> Some(Response(shape.rcode, shape.storable, r)),
          err |-> shape.err]
    ELSE [rrCache |-> None, err |-> shape.err]

\* where a call goes when resolveAndCache returns: Resolve's deferred
\* markRequestFinished runs if the call is the one doing the request
After(p) == IF p \in Callers /\ dd[p].held THEN "finish" ELSE "done"

\* lines 446-496: post-process the error, serve the old cache instead of an
\* error or a non-cacheable response, clean and save
PostProcess_NoBackup(qr, oldCache, i, rrCache, err, saveOk, st) ==
    LET perr == IF err # NoErr
                THEN IF i > 1 THEN AllFailed(err) ELSE err
                ELSE IF rrCache = None THEN ErrNotFound ELSE NoErr
        backup == IF oldCache # None
                  THEN Some([oldCache[1] EXCEPT !.isBackup = TRUE])
                  ELSE None
    IN  IF perr # NoErr
        THEN [rrCache |-> None, err |-> perr, store |-> st, saved |-> "no"]
        ELSE IF oldCache # None /\ ~Cacheable(rrCache[1])
        THEN [rrCache |-> backup, err |-> NoErr, store |-> st, saved |-> "no"]
        ELSE LET cleaned == Clean(rrCache[1])
             IN  IF ~qr.noCaching /\ Cacheable(cleaned)
                 THEN [rrCache |-> Some(cleaned), err |-> NoErr,
                       store |-> IF saveOk
                                 THEN [st EXCEPT ![ID(qr)] = Some(cleaned)]
                                 ELSE st,
                       saved |-> IF saveOk THEN "ok" ELSE "failed"]
                 ELSE [rrCache |-> Some(cleaned), err |-> NoErr, store |-> st,
                       saved |-> "no"]

PostProcess_NoShadow(qr, oldCache, i, rrCache, err, saveOk, st) ==
    LET perr == IF err # NoErr
                THEN IF i > 1 THEN AllFailed(err) ELSE err
                ELSE IF rrCache = None THEN ErrNotFound ELSE NoErr
        backup == IF oldCache # None
                  THEN Some([oldCache[1] EXCEPT !.isBackup = TRUE])
                  ELSE None
    IN  IF oldCache # None /\ perr # NoErr
        THEN [rrCache |-> backup, err |-> NoErr, store |-> st, saved |-> "no"]
        ELSE IF perr # NoErr
        THEN [rrCache |-> None, err |-> perr, store |-> st, saved |-> "no"]
        ELSE LET cleaned == Clean(rrCache[1])
             IN  IF ~qr.noCaching /\ Cacheable(cleaned)
                 THEN [rrCache |-> Some(cleaned), err |-> NoErr,
                       store |-> IF saveOk
                                 THEN [st EXCEPT ![ID(qr)] = Some(cleaned)]
                                 ELSE st,
                       saved |-> IF saveOk THEN "ok" ELSE "failed"]
                 ELSE [rrCache |-> Some(cleaned), err |-> NoErr, store |-> st,
                       saved |-> "no"]

PostProcess_SaveNoCaching(qr, oldCache, i, rrCache, err, saveOk, st) ==
    LET perr == IF err # NoErr
                THEN IF i > 1 THEN AllFailed(err) ELSE err
                ELSE IF rrCache = None THEN ErrNotFound ELSE NoErr
        backup == IF oldCache # None
                  THEN Some([oldCache[1] EXCEPT !.isBackup = TRUE])
                  ELSE None
    IN  IF oldCache # None /\ perr # NoErr
        THEN [rrCache |-> backup, err |-> NoErr, store |-> st, saved |-> "no"]
        ELSE IF oldCache # None /\ ~Cacheable(rrCache[1])
        THEN [rrCache |-> backup, err |-> NoErr, store |-> st, saved |-> "no"]
        ELSE IF perr # NoErr
        THEN [rrCache |-> None, err |-> perr, store |-> st, saved |-> "no"]
        ELSE LET cleaned == Clean(rrCache[1])
             IN  IF Cacheable(cleaned)
                 THEN [rrCache |-> Some(cleaned), err |-> NoErr,
                       store |-> IF saveOk
                                 THEN [st EXCEPT ![ID(qr)] = Some(cleaned)]
                                 ELSE st,
                       saved |-> IF saveOk THEN "ok" ELSE "failed"]
                 ELSE [rrCache |-> Some(cleaned), err |-> NoErr, store |-> st,
                       saved |-> "no"]

PostProcess_NoDefence(qr, oldCache, i, rrCache, err, saveOk, st) ==
    LET perr == IF err # NoErr
                THEN IF i > 1 THEN AllFailed(err) ELSE err
                ELSE NoErr
        backup == IF oldCache # None
                  THEN Some([oldCache[1] EXCEPT !.isBackup = TRUE])
                  ELSE None
    IN  IF oldCache # None /\ perr # NoErr
        THEN [rrCache |-> backup, err |-> NoErr, store |-> st, saved |-> "no"]
        ELSE IF perr = NoErr /\ rrCache = None
        THEN [rrCache |-> None, err |-> NoErr, store |-> st, saved |-> "no"]
        ELSE IF oldCache # None /\ ~Cacheable(rrCache[1])
        THEN [rrCache |-> backup, err |-> NoErr, store |-> st, saved |-> "no"]
        ELSE IF perr # NoErr
        THEN [rrCache |-> None, err |-> perr, store |-> st, saved |-> "no"]
        ELSE LET cleaned == Clean(rrCache[1])
             IN  IF ~qr.noCaching /\ Cacheable(cleaned)
                 THEN [rrCache |-> Some(cleaned), err |-> NoErr,
                       store |-> IF saveOk
                                 THEN [st EXCEPT ![ID(qr)] = Some(cleaned)]
                                 ELSE st,
                       saved |-> IF saveOk THEN "ok" ELSE "failed"]
                 ELSE [rrCache |-> Some(cleaned), err |-> NoErr, store |-> st,
                       saved |-> "no"]

PostProcess(qr, oldCache, i, rrCache, err, saveOk, st) ==
    LET perr == IF err # NoErr
                THEN IF i > 1 THEN AllFailed(err) ELSE err
                ELSE IF rrCache = None THEN ErrNotFound ELSE NoErr
        backup == IF oldCache # None
                  THEN Some([oldCache[1] EXCEPT !.isBackup = TRUE])
                  ELSE None
    IN  IF oldCache # None /\ perr # NoErr
        THEN [rrCache |-> backup, err |-> NoErr, store |-> st, saved |-> "no"]
        ELSE IF oldCache # None /\ ~Cacheable(rrCache[1])
        THEN [rrCache |-> backup, err |-> NoErr, store |-> st, saved |-> "no"]
        ELSE IF perr # NoErr
        THEN [rrCache |-> None, err |-> perr, store |-> st, saved |-> "no"]
        ELSE LET cleaned == Clean(rrCache[1])
             IN  IF ~qr.noCaching /\ Cacheable(cleaned)
                 THEN [rrCache |-> Some(cleaned), err |-> NoErr,
                       store |-> IF saveOk
                                 THEN [st EXCEPT ![ID(qr)] = Some(cleaned)]
                                 ELSE st,
                       saved |-> IF saveOk THEN "ok" ELSE "failed"]
                 ELSE [rrCache |-> Some(cleaned), err |-> NoErr, store |-> st,
                       saved |-> "no"]

\* resolveAndCache returns from before or inside the resolver loop
ReturnNow_OldCache(p, rn, rrCache, err, how, hp) ==
    /\ ret' = [ret EXCEPT ![p] = [rrCache |-> cache[p], err |-> err]]
    /\ pc' = [pc EXCEPT ![p] = After(p)]
    /\ run' = [run EXCEPT ![p] = rn]
    /\ h' = [h EXCEPT ![p] = [hp EXCEPT !.ended = how]]
    /\ UNCHANGED store

ReturnNow(p, rn, rrCache, err, how, hp) ==
    /\ ret' = [ret EXCEPT ![p] = [rrCache |-> rrCache, err |-> err]]
    /\ pc' = [pc EXCEPT ![p] = After(p)]
    /\ run' = [run EXCEPT ![p] = rn]
    /\ h' = [h EXCEPT ![p] = [hp EXCEPT !.ended = how]]
    /\ UNCHANGED store

\* the resolver loop is left (break resolveLoop, or both passes done)
\* (rrCache.Save() succeeds or fails: saveOk)
Leave(p, rn, how, hp) ==
    \E saveOk \in IF PostProcess(q[p], cache[p], rn.i, rn.rrCache, rn.err, TRUE,
                                 store).saved = "no"
                   THEN {TRUE} ELSE BOOLEAN :
      LET pp == PostProcess(q[p], cache[p], rn.i, rn.rrCache, rn.err, saveOk, store)
      IN  /\ store' = pp.store
          /\ ret' = [ret EXCEPT ![p] = [rrCache |-> pp.rrCache, err |-> pp.err]]
          /\ pc' = [pc EXCEPT ![p] = After(p)]
          /\ run' = [run EXCEPT ![p] = rn]
          /\ h' = [h EXCEPT ![p] = [hp EXCEPT !.ended = how, !.saved = pp.saved]]

\* continue: the next resolver of the pass, the next pass, or the end of the loop
Continue(p, rn, hp) ==
    LET nxt == IF rn.idx < Len(rn.resolvers)
               THEN [rn EXCEPT !.idx = @ + 1]
               ELSE [rn EXCEPT !.i = @ + 1, !.idx = 1]
    IN  IF nxt.i < 2
        THEN /\ run' = [run EXCEPT ![p] = nxt]
             /\ h' = [h EXCEPT ![p] = hp]
             /\ pc' = [pc EXCEPT ![p] = "loop"]
             /\ UNCHANGED <<store, ret>>
        ELSE Leave(p, nxt, "exhausted", hp)

\* resolveAndCache(ctx, q, oldCache) called directly (as testConnectivity and
\* the async worker do), with any oldCache
resolveAndCacheCall(p, qr, oldCache) ==
    /\ p \in Callers
    /\ pc[p] = "idle"
    /\ pc' = [pc EXCEPT ![p] = "rac"]
    /\ q' = [q EXCEPT ![p] = qr]
    /\ cache' = [cache EXCEPT ![p] = oldCache]
    /\ h' = [h EXCEPT ![p] = [HInit EXCEPT !.kind = "direct"]]
    /\ UNCHANGED <<envVars, dedupeVars, resetVars, wt, run, ret, rh>>

\* lines 357-370: the resolvers in scope (sc is what GetResolversInScope
\* returns) and the offline check
RacEnter_NoEnvException(p, sc) ==
    /\ pc[p] = "rac"
    /\ LET rn == [RunInit EXCEPT !.resolvers = sc.resolvers,
                                 !.primarySource = sc.primarySource,
                                 !.tryAll = sc.tryAll, !.idx = 1]
       IN  IF Len(sc.resolvers) = 0
           THEN ReturnNow(p, rn, None, ErrNoCompliance, "nocompliance", h[p])
           ELSE IF /\ ~online
                   /\ q[p].fqdn # DNSTestDomain
                   /\ ~IsConnectivityDomain(q[p].fqdn)
           THEN ReturnNow(p, rn, cache[p], ErrOffline, "offline", h[p])
           ELSE /\ run' = [run EXCEPT ![p] = rn]
                /\ pc' = [pc EXCEPT ![p] = "loop"]
                /\ UNCHANGED <<store, ret, h>>
    /\ UNCHANGED <<now, active, failing, online, stopping, dedupeVars, resetVars,
                   q, cache, wt, rh>>

RacEnter(p, sc) ==
    /\ pc[p] = "rac"
    /\ LET rn == [RunInit EXCEPT !.resolvers = sc.resolvers,
                                 !.primarySource = sc.primarySource,
                                 !.tryAll = sc.tryAll, !.idx = 1]
       IN  IF Len(sc.resolvers) = 0
           THEN ReturnNow(p, rn, None, ErrNoCompliance, "nocompliance", h[p])
           ELSE IF /\ ~online
                   /\ sc.primarySource # ServerSourceEnv
                   /\ q[p].fqdn # DNSTestDomain
                   /\ ~IsConnectivityDomain(q[p].fqdn)
           THEN ReturnNow(p, rn, cache[p], ErrOffline, "offline", h[p])
           ELSE /\ run' = [run EXCEPT ![p] = rn]
                /\ pc' = [pc EXCEPT ![p] = "loop"]
                /\ UNCHANGED <<store, ret, h>>
    /\ UNCHANGED <<now, active, failing, online, stopping, dedupeVars, resetVars,
                   q, cache, wt, rh>>

\* lines 392-433: what the loop does with the result of a Conn.Query
\*   "continue"  try the next resolver
\*   "fail"      ReportFailure, then try the next resolver
\*   "return"    return (nil, err)
\*   "offline"   return (oldCache, ErrOffline)
\*   "elect"     ResetFailure and break resolveLoop
Classify_CancelFails(qr, tryAll, isOnline, out) ==
    IF out.err # NoErr
    THEN IF Is(out.err, ErrNotFound) THEN (IF tryAll THEN "continue" ELSE "return")
         ELSE IF Is(out.err, ErrBlocked) THEN "return"
         ELSE IF /\ ~isOnline
                 /\ qr.fqdn # DNSTestDomain
                 /\ ~IsConnectivityDomain(qr.fqdn) THEN "offline"
         ELSE IF Is(out.err, ErrContinue) THEN "continue"
         ELSE IF Is(out.err, ErrTimeout) THEN "fail"
         ELSE IF Is(out.err, ErrShuttingDown) THEN "return"
         ELSE "fail"
    ELSE IF out.rrCache = None THEN "continue"
    ELSE IF out.rrCache[1].rcode # "Success" /\ tryAll THEN "continue"
    ELSE "elect"

Classify_ContinueFails(qr, tryAll, isOnline, out) ==
    IF out.err # NoErr
    THEN IF Is(out.err, ErrNotFound) THEN (IF tryAll THEN "continue" ELSE "return")
         ELSE IF Is(out.err, ErrBlocked) THEN "return"
         ELSE IF /\ ~isOnline
                 /\ qr.fqdn # DNSTestDomain
                 /\ ~IsConnectivityDomain(qr.fqdn) THEN "offline"
         ELSE IF Is(out.err, ErrTimeout) THEN "fail"
         ELSE IF Is(out.err, ctxCanceled) THEN "return"
         ELSE IF Is(out.err, ctxDeadlineExceeded) THEN "return"
         ELSE IF Is(out.err, ErrShuttingDown) THEN "return"
         ELSE "fail"
    ELSE IF out.rrCache = None THEN "continue"
    ELSE IF out.rrCache[1].rcode # "Success" /\ tryAll THEN "continue"
    ELSE "elect"

Classify(qr, tryAll, isOnline, out) ==
    IF out.err # NoErr
    THEN IF Is(out.err, ErrNotFound) THEN (IF tryAll THEN "continue" ELSE "return")
         ELSE IF Is(out.err, ErrBlocked) THEN "return"
         ELSE IF /\ ~isOnline
                 /\ qr.fqdn # DNSTestDomain
                 /\ ~IsConnectivityDomain(qr.fqdn) THEN "offline"
         ELSE IF Is(out.err, ErrContinue) THEN "continue"
         ELSE IF Is(out.err, ErrTimeout) THEN "fail"
         ELSE IF Is(out.err, ctxCanceled) THEN "return"
         ELSE IF Is(out.err, ctxDeadlineExceeded) THEN "return"
         ELSE IF Is(out.err, ErrShuttingDown) THEN "return"
         ELSE "fail"
    ELSE IF out.rrCache = None THEN "continue"
    ELSE IF out.rrCache[1].rcode # "Success" /\ tryAll THEN "continue"
    ELSE "elect"

\* whether the loop queries the resolver it has reached (lines 379-387):
\* "stop" on shutdown, "skip" a failing resolver in the first pass, else "query"
Reached_NoStop(rn, isStopping, isFailing) ==
    IF rn.i = 0 /\ isFailing THEN "skip" ELSE "query"

Reached_NoSkip(rn, isStopping, isFailing) ==
    IF isStopping THEN "stop" ELSE "query"

Reached(rn, isStopping, isFailing) ==
    IF isStopping THEN "stop"
    ELSE IF rn.i = 0 /\ isFailing THEN "skip"
    ELSE "query"

\* one iteration of the resolver loop up to the call of Conn.Query
LoopStep(p) ==
    /\ pc[p] = "loop"
    /\ LET rn == run[p]
           r == rn.resolvers[rn.idx]
           todo == Reached(rn, stopping, r \in failing)
       IN  CASE todo = "stop" ->
                  ReturnNow(p, rn, None, ErrShuttingDown, "stopping", h[p])
             [] todo = "skip" -> Continue(p, rn, h[p])
             [] todo = "query" ->
                  /\ pc' = [pc EXCEPT ![p] = "query"]
                  /\ h' = [h EXCEPT ![p] =
                             [@ EXCEPT !.nq = @ + 1,
                                       !.lastq = <<rn.i, rn.idx>>,
                                       !.ordOK = @ /\ (h[p].lastq[1] < rn.i
                                                    \/ (h[p].lastq[1] = rn.i
                                                        /\ h[p].lastq[2] < rn.idx)),
                                       !.qFailing = @ \/ (rn.i = 0 /\ r \in failing)]]
                  /\ UNCHANGED <<store, ret, run>>
    /\ UNCHANGED <<now, active, failing, online, stopping, dedupeVars, resetVars,
                   q, cache, wt, rh>>

\* Conn.Query returns; the rest of the iteration
QueryReturn(p, shape) ==
    /\ pc[p] = "query"
    /\ LET r == run[p].resolvers[run[p].idx]
           out == Outcome(shape, r)
           rn == [run[p] EXCEPT !.rrCache = out.rrCache, !.err = out.err]
           verdict == Classify(q[p], rn.tryAll, online, out)
           hq == [h[p] EXCEPT
                    !.fx = IF verdict = "fail" THEN "report"
                           ELSE IF verdict = "elect" THEN "reset" ELSE "none",
                    !.fxOn = r,
                    !.resets = IF verdict = "elect" THEN @ + 1 ELSE @]
       IN    CASE verdict = "continue" ->
                      /\ Continue(p, rn, hq)
                      /\ UNCHANGED failing
                 [] verdict = "fail" ->
                      /\ failing' = failing \cup {r}
                      /\ Continue(p, rn, hq)
                 [] verdict = "return" ->
                      /\ ReturnNow(p, rn, None, out.err, "terminal", hq)
                      /\ UNCHANGED failing
                 [] verdict = "offline" ->
                      /\ ReturnNow(p, rn, cache[p], ErrOffline, "offlineQ", hq)
                      /\ UNCHANGED failing
                 [] verdict = "elect" ->
                      /\ failing' = failing \ {r}
                      /\ Leave(p, rn, "elected", [hq EXCEPT !.elected = rn.i])
    /\ UNCHANGED <<now, active, online, stopping, dedupeVars, resetVars,
                   q, cache, wt, rh>>

\* the call is over; the process may call again
Return(p) ==
    /\ pc[p] = "done"
    /\ pc' = [pc EXCEPT ![p] = "idle"]
    /\ q' = [q EXCEPT ![p] = NoQuery]
    /\ cache' = [cache EXCEPT ![p] = None]
    /\ run' = [run EXCEPT ![p] = RunInit]
    /\ ret' = [ret EXCEPT ![p] = RetInit]
    /\ h' = [h EXCEPT ![p] = HInit]
    /\ dd' = [dd EXCEPT ![p] = IF p \in Callers /\ ~dd[p].held THEN DdInit ELSE dd[p]]
    /\ UNCHANGED <<envVars, dupReqMap, resetVars, wt, rh>>

\* A caller of deduplicateRequest other than Resolve: the call, what it does
\* once it holds the finish function, and what it does when nil came back.
deduplicateRequestCall(p, key) ==
    /\ p \in Callers
    /\ pc[p] = "idle"
    /\ pc' = [pc EXCEPT ![p] = "dedupe"]
    /\ q' = [q EXCEPT ![p] = [fqdn |-> key, noCaching |-> FALSE]]
    /\ h' = [h EXCEPT ![p] = [HInit EXCEPT !.kind = "dedupe"]]
    /\ UNCHANGED <<envVars, dedupeVars, resetVars, cache, wt, run, ret, rh>>

Work(p) ==
    /\ pc[p] = "rac"
    /\ h[p].kind = "dedupe"
    /\ pc' = [pc EXCEPT ![p] = "finish"]
    /\ UNCHANGED <<envVars, dedupeVars, resetVars, q, cache, wt, run, ret, h, rh>>

NilReturned(p) ==
    /\ pc[p] = "recheck"
    /\ h[p].kind = "dedupe"
    /\ pc' = [pc EXCEPT ![p] = "done"]
    /\ UNCHANGED <<envVars, dedupeVars, resetVars, q, cache, wt, run, ret, h, rh>>

\* testConnectivity (lines 532-566). ExportAllARecords is modelled by its
\* result ips, the A records of the answer: the model's responses carry no
\* record sets, so the probe draws them when it exports them.
ARecords == {<<>>, <<"192.0.2.1">>}
NoIPs == <<>>

\* the switch over what resolveAndCache returned (rac) to (ips, ok, err)
testConnectivity_NotFoundFails(rac, ips) ==
    IF rac.err = NoErr
    THEN CASE rac.rrCache[1].rcode = "NameError" ->
                [ips |-> NoIPs, ok |-> TRUE, err |-> ErrNotFound]
           [] rac.rrCache[1].rcode = "Refused" ->
                [ips |-> NoIPs, ok |-> TRUE, err |-> <<"refused">>]
           [] OTHER ->
                IF Len(ips) > 0
                THEN [ips |-> ips, ok |-> TRUE, err |-> NoErr]
                ELSE [ips |-> NoIPs, ok |-> TRUE, err |-> ErrNotFound]
    ELSE IF Is(rac.err, ErrBlocked)
    THEN [ips |-> NoIPs, ok |-> TRUE, err |-> rac.err]
    ELSE IF Is(rac.err, ErrNoCompliance)
    THEN [ips |-> NoIPs, ok |-> TRUE, err |-> rac.err]
    ELSE [ips |-> NoIPs, ok |-> FALSE, err |-> rac.err]

testConnectivity(rac, ips) ==
    IF rac.err = NoErr
    THEN CASE rac.rrCache[1].rcode = "NameError" ->
                [ips |-> NoIPs, ok |-> TRUE, err |-> ErrNotFound]
           [] rac.rrCache[1].rcode = "Refused" ->
                [ips |-> NoIPs, ok |-> TRUE, err |-> <<"refused">>]
           [] OTHER ->
                IF Len(ips) > 0
                THEN [ips |-> ips, ok |-> TRUE, err |-> NoErr]
                ELSE [ips |-> NoIPs, ok |-> TRUE, err |-> ErrNotFound]
    ELSE IF Is(rac.err, ErrNotFound)
    THEN [ips |-> NoIPs, ok |-> TRUE, err |-> rac.err]
    ELSE IF Is(rac.err, ErrBlocked)
    THEN [ips |-> NoIPs, ok |-> TRUE, err |-> rac.err]
    ELSE IF Is(rac.err, ErrNoCompliance)
    THEN [ips |-> NoIPs, ok |-> TRUE, err |-> rac.err]
    ELSE [ips |-> NoIPs, ok |-> FALSE, err |-> rac.err]

\* lines 533-541: the query is built and checked, then resolveAndCache is
\* called with it and no oldCache
testConnectivityCall(p, fqdn) ==
    LET qr == [fqdn |-> fqdn, noCaching |-> TRUE]
    IN  /\ p \in Callers
        /\ pc[p] = "idle"
        /\ h' = [h EXCEPT ![p] = [HInit EXCEPT !.kind = "probe"]]
        /\ cache' = [cache EXCEPT ![p] = None]
        /\ IF ~QueryCheckOk(qr)
           THEN /\ q' = [q EXCEPT ![p] = qr]
                /\ pc' = [pc EXCEPT ![p] = "probed"]
                /\ ret' = [ret EXCEPT ![p] =
                             [ips |-> NoIPs, ok |-> FALSE, err |-> ErrInvalid]]
           ELSE /\ q' = [q EXCEPT ![p] = QueryChecked(qr)]
                /\ pc' = [pc EXCEPT ![p] = "rac"]
                /\ ret' = ret
        /\ UNCHANGED <<envVars, dedupeVars, resetVars, wt, run, rh>>

\* lines 542-565: resolveAndCache has returned, testConnectivity returns
testConnectivityReturn(p, ips) ==
    /\ pc[p] = "done"
    /\ h[p].kind = "probe"
    /\ pc' = [pc EXCEPT ![p] = "probed"]
    /\ ret' = [ret EXCEPT ![p] = testConnectivity(ret[p], ips)]
    /\ UNCHANGED <<envVars, dedupeVars, resetVars, q, cache, wt, run, h, rh>>

\* ------------------------------------------------------------ environment
Tick ==
    /\ now < MaxTime
    /\ now' = now + 1
    /\ UNCHANGED <<store, active, failing, online, stopping, dedupeVars,
                   resetVars, procVars, rh>>

\* the clock of a specification that runs until bound
TickUntil(bound) ==
    /\ now < bound
    /\ now' = now + 1
    /\ UNCHANGED <<store, active, failing, online, stopping, dedupeVars,
                   resetVars, procVars, rh>>

\* Time passes without end on a clock of MaxTime ticks: the clock advances
\* or, once it shows MaxTime, every deadline moves one tick into the past
\* instead. Deadlines are only ever compared with the clock and with one
\* another, and a deadline that has passed stays passed, so the comparisons
\* come out as on an unbounded clock.
Earlier(t) == IF t > 0 THEN t - 1 ELSE 0

Pass ==
    /\ IF now < MaxTime
       THEN /\ now' = now + 1
            /\ UNCHANGED <<dd, wt>>
       ELSE /\ now' = now
            /\ dd' = [c \in Callers |-> [dd[c] EXCEPT !.waitUntil = Earlier(@)]]
            /\ wt' = [w \in Procs |-> [wt[w] EXCEPT !.at = Earlier(@)]]
    /\ UNCHANGED <<store, active, failing, online, stopping, dupReqMap,
                   resetVars, pc, q, cache, run, ret, h, rh>>

\* a stored record comes closer to its expiry
Age(k) ==
    /\ store[k] # None
    /\ store[k][1].life # "expired"
    /\ store' = [store EXCEPT ![k] =
                   Some([@[1] EXCEPT !.life = IF @ = "fresh" THEN "soon"
                                              ELSE "expired"])]
    /\ UNCHANGED <<now, active, failing, online, stopping, dedupeVars,
                   resetVars, procVars, rh>>

\* the resolver registry is reloaded without, or again with, resolver r
SetActive(r) ==
    /\ active' = IF r \in active THEN active \ {r} ELSE active \cup {r}
    /\ UNCHANGED <<now, store, failing, online, stopping, dedupeVars,
                   resetVars, procVars, rh>>

\* the network status changes
SetOnline ==
    /\ online' = ~online
    /\ UNCHANGED <<now, store, active, failing, stopping, dedupeVars,
                   resetVars, procVars, rh>>

\* a resolver's failing state changes outside the call (its failing time
\* runs out, or another query reports it)
SetFailing(r) ==
    /\ failing' = IF r \in failing THEN failing \ {r} ELSE failing \cup {r}
    /\ UNCHANGED <<now, store, active, online, stopping, dedupeVars,
                   resetVars, procVars, rh>>

\* the module starts to shut down
Shutdown ==
    /\ ~stopping
    /\ stopping' = TRUE
    /\ UNCHANGED <<now, store, active, failing, online, dedupeVars,
                   resetVars, procVars, rh>>

\* ---------------------------------------------------------- specifications
\* the resolver lists GetResolversInScope can return: no resolver twice
ResolverLists(n) ==
    {l \in UNION {[1..m -> ResolverIDs] : m \in 0..n} :
        \A a, b \in 1..Len(l) : a # b => l[a] # l[b]}

Scopes(n, sources) ==
    [resolvers : ResolverLists(n), primarySource : sources, tryAll : BOOLEAN]

\* Spec: Resolve calls one after the other, and the async worker they start,
\* while stored records expire, the registry is reloaded and the network
\* status changes
Queries ==
    {[fqdn |-> "", noCaching |-> FALSE], [fqdn |-> "a", noCaching |-> FALSE],
     [fqdn |-> "a.", noCaching |-> FALSE], [fqdn |-> "a.", noCaching |-> TRUE],
     [fqdn |-> "c.", noCaching |-> TRUE]}
QueryCompliance == {NoErr, ErrSpecialDomainsDisabled}
SeqScopes ==
    {[resolvers |-> l, primarySource |-> ServerSourceConfigured, tryAll |-> FALSE] :
        l \in {<<>>, <<1>>}}
SeqShapes ==
    {ErrShape(ErrContinue), ErrShape(ErrBlocked), RespShape("Success", TRUE),
     RespShape("NameError", FALSE)}

Next ==
    \/ \E qr \in Queries, qcomp \in QueryCompliance, compl \in BOOLEAN :
          Resolve(1, qr, qcomp, compl)
    \/ deduplicateRequest(1)
    \/ Finish(1)
    \/ \E p \in {Worker, 1}, sc \in SeqScopes : RacEnter(p, sc)
    \/ \E p \in {Worker, 1} : LoopStep(p)
    \/ \E p \in {Worker, 1}, shape \in SeqShapes : QueryReturn(p, shape)
    \/ \E p \in {Worker, 1} : Return(p)
    \/ Age("a.A")
    \/ SetActive(1)
    \/ SetOnline

Spec == Init /\ [][Next]_vars

\* SpecFlight: NumCallers concurrent Resolve calls for the same query, started
\* with an empty store and an empty dedupe registry, while time passes
FlightQuery == [fqdn |-> "a.", noCaching |-> FALSE]
FlightScopes ==
    {[resolvers |-> <<1>>, primarySource |-> ServerSourceConfigured,
      tryAll |-> FALSE]}
FlightShapes == {ErrShape(ErrContinue), RespShape("Success", TRUE)}

NextFlight ==
    \/ \E p \in Callers : Resolve(p, FlightQuery, NoErr, TRUE)
    \/ \E p \in Callers : deduplicateRequest(p)
    \/ \E p \in Callers : WaitCompleted(p)
    \/ \E p \in Callers : WaitCancelled(p)
    \/ \E p \in Callers : WaitTimeout(p)
    \/ \E p \in Callers : Recheck(p, TRUE)
    \/ \E p \in Callers : Finish(p)
    \/ \E p \in Callers, sc \in FlightScopes : RacEnter(p, sc)
    \/ \E p \in Callers : LoopStep(p)
    \/ \E p \in Callers, shape \in FlightShapes : QueryReturn(p, shape)
    \/ Tick

SpecFlight == InitWith([k \in Keys |-> None]) /\ [][NextFlight]_vars

\* SpecDedupe: NumCallers callers of deduplicateRequest, for two keys, again
\* and again, while time passes
DedupeNames == {"a.", "c."}

NextDedupe ==
    \/ \E p \in Callers, key \in DedupeNames : deduplicateRequestCall(p, key)
    \/ \E p \in Callers : deduplicateRequest(p)
    \/ \E p \in Callers : WaitCompleted(p)
    \/ \E p \in Callers : WaitCancelled(p)
    \/ \E p \in Callers : WaitTimeout(p)
    \/ \E p \in Callers : NilReturned(p)
    \/ \E p \in Callers : Work(p)
    \/ \E p \in Callers : Finish(p)
    \/ \E p \in Callers : Return(p)
    \/ Tick

SpecDedupe == InitWith([k \in Keys |-> None]) /\ [][NextDedupe]_vars

\* SpecRefresh: Resolve calls for one name with a stored entry that comes to
\* expire, and the async worker they start. The worker's steps are fair (the
\* module's worker runs on its own goroutine and every Conn.Query returns);
\* nothing is assumed of the caller.
RefreshQuery == [fqdn |-> "a.", noCaching |-> FALSE]

InitRefresh ==
    InitWith([k \in Keys |-> IF k = ID(RefreshQuery)
                             THEN Some(Preloaded("Success", 1)) ELSE None])

WorkerStep ==
    \/ \E sc \in SeqScopes : RacEnter(Worker, sc)
    \/ LoopStep(Worker)
    \/ \E shape \in SeqShapes : QueryReturn(Worker, shape)

NextRefresh ==
    \/ \E qcomp \in QueryCompliance, compl \in BOOLEAN :
          Resolve(1, RefreshQuery, qcomp, compl)
    \/ deduplicateRequest(1)
    \/ Finish(1)
    \/ \E sc \in SeqScopes : RacEnter(1, sc)
    \/ LoopStep(1)
    \/ \E shape \in SeqShapes : QueryReturn(1, shape)
    \/ WorkerStep
    \/ \E p \in {Worker, 1} : Return(p)
    \/ Age(ID(RefreshQuery))
    \/ Shutdown

SpecRefresh == InitRefresh /\ [][NextRefresh]_vars /\ WF_vars(WorkerStep)

\* SpecWait: NumCallers calls of deduplicateRequest for one key, each made
\* once, whose owners may never finish. Time passes, an expired timer fires
\* and a call that can enter the registry does so; whether an owner works,
\* finishes or a context is cancelled is left open.
NextWait ==
    \/ \E p \in Callers : deduplicateRequestCall(p, "a.")
    \/ \E p \in Callers : deduplicateRequest(p)
    \/ \E p \in Callers : WaitCompleted(p)
    \/ \E p \in Callers : WaitCancelled(p)
    \/ \E p \in Callers : WaitTimeout(p)
    \/ \E p \in Callers : NilReturned(p)
    \/ \E p \in Callers : Work(p)
    \/ \E p \in Callers : Finish(p)
    \/ Pass

SpecWait ==
    /\ InitWith([k \in Keys |-> None])
    /\ [][NextWait]_vars
    /\ WF_vars(Pass)
    /\ \A p \in Callers : WF_vars(WaitTimeout(p)) /\ WF_vars(deduplicateRequest(p))

\* SpecChain: callers of deduplicateRequest for one key that call again and
\* again, for as long as it takes a status that superseded another to be
\* superseded in its turn
MaxChainTime == 2 * maxRequestTimeout

NextChain ==
    \/ \E p \in Callers : deduplicateRequestCall(p, "a.")
    \/ \E p \in Callers : deduplicateRequest(p)
    \/ \E p \in Callers : WaitCompleted(p)
    \/ \E p \in Callers : WaitCancelled(p)
    \/ \E p \in Callers : WaitTimeout(p)
    \/ \E p \in Callers : NilReturned(p)
    \/ \E p \in Callers : Work(p)
    \/ \E p \in Callers : Finish(p)
    \/ \E p \in Callers : Return(p)
    \/ TickUntil(MaxChainTime)

SpecChain == InitWith([k \in Keys |-> None]) /\ [][NextChain]_vars

\* SpecRun: one resolveAndCache call, with every query, oldCache and scope of
\* at most MaxScope resolvers, while the network status changes and the module
\* may start to shut down
RunQueries ==
    {[fqdn |-> "a.", noCaching |-> FALSE], [fqdn |-> "a.", noCaching |-> TRUE],
     [fqdn |-> "t.", noCaching |-> FALSE], [fqdn |-> "c.", noCaching |-> FALSE]}
OldCaches ==
    {None} \cup
    {Some([Preloaded(rc, 1) EXCEPT !.fromStore = TRUE, !.life = "expired"]) :
        rc \in {"Success", "Refused"}}
\* (resolveAndCache treats all resolvers alike, so the lists 1..m stand for
\* every list of m resolvers)
RunScopes ==
    [resolvers : {[j \in 1..m |-> j] : m \in 0..MaxScope},
     primarySource : {ServerSourceConfigured, ServerSourceOperatingSystem,
                      ServerSourceEnv},
     tryAll : BOOLEAN]

NextRun ==
    \/ \E qr \in RunQueries, old \in OldCaches : resolveAndCacheCall(1, qr, old)
    \/ \E sc \in RunScopes : RacEnter(1, sc)
    \/ LoopStep(1)
    \/ \E shape \in QueryShapes : QueryReturn(1, shape)
    \/ SetOnline
    \/ Shutdown

SpecRun == InitWith([k \in Keys |-> None]) /\ [][NextRun]_vars

\* SpecProbe: one testConnectivity call, for an empty, a short and a canonical
\* name, with every scope of at most MaxScope resolvers, while the network
\* status changes and the module may start to shut down
ProbeNames == {"", "a", "c.", "t."}

NextProbe ==
    \/ \E fqdn \in ProbeNames : testConnectivityCall(1, fqdn)
    \/ \E sc \in RunScopes : RacEnter(1, sc)
    \/ LoopStep(1)
    \/ \E shape \in QueryShapes : QueryReturn(1, shape)
    \/ \E ips \in ARecords : testConnectivityReturn(1, ips)
    \/ SetOnline
    \/ Shutdown

SpecProbe == InitWith([k \in Keys |-> None]) /\ [][NextProbe]_vars

\* SpecResult: one call of Resolve or of resolveAndCache, with no stored
\* entry, a fresh or an expired one, with and without an oldCache, over scopes
\* of at most MaxScope resolvers that start and stop failing, with connections
\* that return a response, an error, both or neither, while the module may
\* start to shut down
ResultQueries ==
    {[fqdn |-> "", noCaching |-> FALSE], [fqdn |-> "a.", noCaching |-> FALSE],
     [fqdn |-> "a.", noCaching |-> TRUE]}
ResultStores ==
    {[k \in Keys |-> None]} \cup
    {[k \in Keys |-> IF k = ID(RefreshQuery)
                     THEN Some([Preloaded("Success", 1) EXCEPT !.life = l])
                     ELSE None] : l \in {"fresh", "expired"}}
ResultScopes ==
    [resolvers : {[j \in 1..m |-> j] : m \in 0..MaxScope},
     primarySource : {ServerSourceConfigured},
     tryAll : BOOLEAN]
ResultShapes ==
    {NilShape, ErrShape(ErrContinue), ErrShape(ErrTimeout),
     RespShape("Success", TRUE), RespShape("NameError", FALSE),
     RespShape("Refused", TRUE),
     BothShape(ErrContinue, "Success"), BothShape(ErrNotFound, "Success")}

InitResult == \E st \in ResultStores : InitWith(st)

NextResult ==
    \/ \E qr \in ResultQueries, compl \in BOOLEAN : Resolve(1, qr, NoErr, compl)
    \/ \E old \in OldCaches : resolveAndCacheCall(1, RefreshQuery, old)
    \/ deduplicateRequest(1)
    \/ Finish(1)
    \/ \E sc \in ResultScopes : RacEnter(1, sc)
    \/ LoopStep(1)
    \/ \E shape \in ResultShapes : QueryReturn(1, shape)
    \/ \E r \in 1..MaxScope : SetFailing(r)
    \/ Shutdown

SpecResult == InitResult /\ [][NextResult]_vars

\* SpecOrder: one resolveAndCache call over every list of the resolvers, while
\* resolvers start and stop failing and the module may start to shut down
OrderScopes == Scopes(NumResolvers, {ServerSourceConfigured})

NextOrder ==
    \/ resolveAndCacheCall(1, [fqdn |-> "a.", noCaching |-> FALSE], None)
    \/ \E sc \in OrderScopes : RacEnter(1, sc)
    \/ LoopStep(1)
    \/ \E shape \in QueryShapes : QueryReturn(1, shape)
    \/ \E r \in ResolverIDs : SetFailing(r)
    \/ Shutdown

SpecOrder == InitWith([k \in Keys |-> None]) /\ [][NextOrder]_vars

\* SpecReset: a sequence of shouldResetCache calls with any query IDs
NextReset == \E k \in Keys : ShouldResetCall(k)

SpecReset == InitWith([k \in Keys |-> None]) /\ [][NextReset]_vars

\* ================================================================ properties

\* C8 (cache-reset cadence): in a run of consecutive shouldResetCache calls
\* with the same ID, the call returns true exactly on the 3rd, 13th, 23rd, ...
\* call of the run; a call with a different ID returns false and restarts the
\* count at 1.
ResetCadence ==
    /\ rh.runLen > 0 => (rh.reset <=> rh.runLen % 10 = 3)
    /\ rh.runLen = 1 => cacheResetSeenCnt = 1

\* the 23rd call of a run has just returned true
ResetCadenceReached == rh.runLen = 23 /\ rh.reset

\* C9 (reset spacing), as stated: after a call returned true for an ID, the
\* next call returning true for that ID comes only after 10 further calls with
\* that ID, whatever calls with other IDs come in between.
ResetSpacingAnyInterleaving ==
    (rh.reset /\ rh.gap # -1) => rh.gap >= 10

\* C9 (reset spacing), amended: when no call with another ID came in between,
\* the next true for the same ID is the 10th further call with that ID; when a
\* call with another ID came in between, the count restarted and the next true
\* can be as early as the 3rd further call with that ID, never earlier.
ResetSpacing ==
    (rh.reset /\ rh.gap # -1) =>
        IF rh.gapMixed THEN rh.gap >= 3 ELSE rh.gap = 10

\* a second true for the same ID in an unbroken run
ResetSpacingReached == rh.reset /\ rh.gap = 10 /\ ~rh.gapMixed

\* the old cache as resolveAndCache serves it: marked as a backup
Backup(p) == Some([cache[p][1] EXCEPT !.isBackup = TRUE])

\* resolveAndCache has returned, it was given an oldCache, and its resolver
\* run ended the way `how` says
EndedWithOld(p, how) ==
    /\ pc[p] = "done"
    /\ cache[p] # None
    /\ h[p].ended = how

\* the loop ran out of resolvers and left an error or no response at all
ExhaustedInError(p) ==
    /\ h[p].ended = "exhausted"
    /\ (run[p].err # NoErr \/ run[p].rrCache = None)

\* C3 (backup fallback), as stated: a resolveAndCache call with a non-nil
\* oldCache whose resolver run ends in an error, of whatever kind, returns
\* (oldCache, nil) with oldCache.IsBackup true.
BackupFallbackEveryError ==
    (/\ pc[1] = "done"
     /\ cache[1] # None
     /\ \/ h[1].ended \in {"terminal", "offlineQ", "stopping"}
        \/ ExhaustedInError(1))
    => ret[1] = [rrCache |-> Backup(1), err |-> NoErr]

\* C3 (backup fallback), amended: with a non-nil oldCache, an error that the
\* loop carries to its end (every resolver tried, the last error or no
\* response left) is swallowed and (oldCache, nil) is returned with IsBackup
\* true; an error on which the loop returns at once (ErrNotFound without
\* tryAll, ErrBlocked, cancellation, deadline, shutdown) is returned as
\* (nil, err); and an error met while offline returns (oldCache, ErrOffline)
\* with IsBackup not set.
BackupFallback ==
    /\ (EndedWithOld(1, "exhausted") /\ ExhaustedInError(1))
         => ret[1] = [rrCache |-> Backup(1), err |-> NoErr]
    /\ (EndedWithOld(1, "terminal") \/ EndedWithOld(1, "stopping"))
         => (ret[1].rrCache = None /\ ret[1].err # NoErr)
    /\ EndedWithOld(1, "offlineQ")
         => ret[1] = [rrCache |-> cache[1], err |-> ErrOffline]

\* both passes failed with a timeout and the old cache was served
BackupFallbackReached ==
    /\ EndedWithOld(1, "exhausted")
    /\ run[1].err = ErrTimeout
    /\ ret[1].rrCache # None
    /\ ret[1].rrCache[1].isBackup

\* C4 (NXDomain shadow): a resolveAndCache call with a non-nil oldCache that
\* elects a fresh response that is not Cacheable(), with tryAll true or false,
\* returns (oldCache, nil) with IsBackup true; the fresh response is neither
\* returned nor saved.
NXDomainShadow ==
    (/\ EndedWithOld(1, "elected")
     /\ ~Cacheable(run[1].rrCache[1]))
    => /\ ret[1] = [rrCache |-> Backup(1), err |-> NoErr]
       /\ h[1].saved = "no"
       /\ \A k \in Keys : store[k] = None

\* an NXDomain response was elected over an old cache
NXDomainShadowReached ==
    /\ EndedWithOld(1, "elected")
    /\ run[1].rrCache[1].rcode = "NameError"
    /\ ret[1].rrCache[1].isBackup

\* the step in which resolveAndCache, with a non-empty resolver list, makes
\* its offline check while the network status is Offline
OfflineCheck ==
    /\ pc[1] = "rac"
    /\ pc'[1] # "rac"
    /\ ~online
    /\ Len(run'[1].resolvers) > 0

Probe(fqdn) == fqdn = DNSTestDomain \/ IsConnectivityDomain(fqdn)

TwoPassOrdering ==
    /\ h[1].ordOK
    /\ ~h[1].qFailing
    /\ h[1].lastq[1] = 1 => h[1].elected # 0

\* a resolver skipped in pass 0 has been queried in pass 1: on a list of two,
\* the third query of the call is the second of pass 1
TwoPassOrderingReached ==
    /\ pc[1] = "query"
    /\ Len(run[1].resolvers) = 2
    /\ h[1].nq = 3
    /\ h[1].lastq = <<1, 2>>

\* Resolve returned a cache hit: the stored entry as it is, a nil error, and
\* no Conn.Query
FreshHit(p) ==
    /\ pc[p] = "done"
    /\ ret[p].err = NoErr
    /\ ret[p].rrCache # None
    /\ ret[p].rrCache[1].fromStore
    /\ ret[p].rrCache[1].life = "fresh"
    /\ ~ret[p].rrCache[1].isBackup
    /\ ~ret[p].rrCache[1].requestingNew
    /\ h[p].nq = 0

\* C2 (fresh cache hit), as stated: whenever the store holds an entry for the
\* query that is neither expired nor expiring soon, whose resolver is
\* registered and compliant, and the FQDN is no connectivity domain, a Resolve
\* call with NoCaching=false returns that entry with a nil error and invokes
\* no Conn.Query.
FreshCacheHitAlways ==
    (h[1].kind = "resolve" /\ h[1].fresh) => FreshHit(1)

\* C2 (fresh cache hit), amended: the same, provided the query passes its own
\* compliance check and the call is not the one on which shouldResetCache
\* trips (the 3rd, 13th, ... consecutive cache check for the same ID, which
\* deletes the entry and lets the call query upstream).
FreshCacheHit ==
    (h[1].kind = "resolve" /\ h[1].pass) => FreshHit(1)

\* a Resolve call found a fresh entry and returned it
FreshCacheHitReached ==
    h[1].kind = "resolve" /\ h[1].pass /\ FreshHit(1)

\* C6 (provenance): Resolve never returns, as a cache hit or as a backup, a
\* stored entry whose resolver was absent from the active registry when
\* checkCache read it.
Provenance ==
    (/\ pc[1] = "done"
     /\ h[1].kind = "resolve"
     /\ ret[1].rrCache # None
     /\ ret[1].rrCache[1].fromStore)
    => ret[1].rrCache[1].regAtRead

\* Resolve returned a stored entry as a backup while its resolver is, by now,
\* no longer registered
ProvenanceReached ==
    /\ pc[1] = "done"
    /\ h[1].kind = "resolve"
    /\ ret[1].rrCache # None
    /\ ret[1].rrCache[1].fromStore
    /\ ret[1].rrCache[1].isBackup
    /\ ret[1].rrCache[1].resolver \notin active

\* the unfinished owners of a dedupe key: callers holding a finish function
\* that has not run yet
Owners(k) == {p \in Callers : dd[p].held /\ dd[p].key = k}

\* C10 (owner uniqueness): at every instant and for every dedupe key, at most
\* one unfinished owner is not marked superseded and the registry maps the key
\* to that owner's entry; an owner is marked superseded only once the time has
\* reached its waitUntil, so a second unfinished owner exists only then.
OwnerUniqueness ==
    \A k \in Keys :
        /\ \A o1, o2 \in Owners(k) :
              (~dd[o1].superseded /\ ~dd[o2].superseded) => o1 = o2
        /\ \A o \in Owners(k) : ~dd[o].superseded => dupReqMap[k] = o
        /\ \A o \in Owners(k) : dd[o].superseded => now >= dd[o].waitUntil

\* two unfinished owners of one key, the earlier one superseded
OwnerUniquenessReached ==
    \E k \in Keys : \E o1, o2 \in Owners(k) :
        o1 # o2 /\ dd[o1].superseded /\ dupReqMap[k] = o2

\* C1 (single-flight exclusion): when NumCallers concurrent Resolve calls for
\* the same query, started with no stored entry and an empty dedupe registry,
\* have all returned, and the leader (a caller that did the request, was not
\* superseded, made one Conn.Query and had its result saved) is still short
\* of its waitUntil, then no other call invoked Conn.Query and every caller
\* returned the leader's answer.
SingleFlightExclusion ==
    \A l \in Callers :
        (/\ \A p \in Callers : pc[p] = "done"
         /\ h[l].nq = 1
         /\ h[l].saved = "ok"
         /\ dd[l].key = ID(FlightQuery)
         /\ ~dd[l].superseded
         /\ now < dd[l].waitUntil)
        => \A p \in Callers \ {l} :
              /\ h[p].nq = 0
              /\ ret[p].err = NoErr
              /\ ret[p].rrCache # None
              /\ ret[p].rrCache[1].rcode = ret[l].rrCache[1].rcode
              /\ ret[p].rrCache[1].resolver = ret[l].rrCache[1].resolver

\* the step in which a Conn.Query of the call returns
QueryEnds == pc[1] = "query" /\ pc'[1] # "query"

\* the error is a cancellation: context.Canceled or context.DeadlineExceeded
Cancelled(err) == Is(err, ctxCanceled) \/ Is(err, ctxDeadlineExceeded)

\* C11 (cancellation), as stated: whenever a Conn.Query inside
\* resolveAndCache returns context.Canceled or context.DeadlineExceeded,
\* resolveAndCache returns that same error at once, starts no further
\* Conn.Query and does not call ReportFailure, in every network status and
\* for every tryAll and oldCache.
CancellationEveryStatus ==
    [][(QueryEnds /\ Cancelled(run'[1].err)) =>
          /\ pc'[1] = "done"
          /\ ret'[1] = [rrCache |-> None, err |-> run'[1].err]
          /\ h'[1].fx # "report"
          /\ failing' = failing]_vars

\* C11 (cancellation), amended: the same, except when the network status is
\* Offline and the query is no probe: then the offline case of the switch
\* comes first and the call returns (oldCache, ErrOffline) at once, again
\* with no further Conn.Query and no ReportFailure.
Cancellation ==
    [][(QueryEnds /\ Cancelled(run'[1].err)) =>
          /\ pc'[1] = "done"
          /\ ret'[1] = IF ~online /\ ~Probe(q[1].fqdn)
                       THEN [rrCache |-> cache[1], err |-> ErrOffline]
                       ELSE [rrCache |-> None, err |-> run'[1].err]
          /\ h'[1].fx # "report"
          /\ failing' = failing]_vars

\* a call with an oldCache has returned the cancellation error
CancellationReached ==
    /\ EndedWithOld(1, "terminal")
    /\ Cancelled(run[1].err)
    /\ ret[1] = [rrCache |-> None, err |-> run[1].err]

\* C12 (shutdown): once the shutdown signal is raised, a resolveAndCache call
\* that reaches the next resolver iteration starts no further Conn.Query and
\* returns ErrShuttingDown.
ShutdownStops ==
    [][(stopping /\ pc[1] = "loop" /\ <<pc[1], run[1], h[1]>>' # <<pc[1], run[1], h[1]>>)
          => /\ pc'[1] = "done"
             /\ ret'[1] = [rrCache |-> None, err |-> ErrShuttingDown]
             /\ h'[1].nq = h[1].nq]_vars

\* the signal came while the call was running: it returned ErrShuttingDown
\* after a first Conn.Query
ShutdownStopsReached ==
    /\ pc[1] = "done"
    /\ h[1].ended = "stopping"
    /\ h[1].nq = 1
    /\ ret[1].err = ErrShuttingDown

\* C13 (save precondition): every Save of resolveAndCache is on the response
\* the run just obtained from a resolver, after Clean(minTTL) was applied to
\* it in the same call, and only when q.NoCaching is false and the response
\* is Cacheable(); a NoCaching query and a backup-served oldCache never cause
\* a Save, and nothing else is written to the store.
SavePrecondition ==
    /\ h[1].saved # "no" =>
          /\ pc[1] = "done"
          /\ ~q[1].noCaching
          /\ ret[1].err = NoErr
          /\ ret[1].rrCache # None
          /\ run[1].rrCache # None
          /\ ret[1].rrCache[1] = Clean(run[1].rrCache[1])
          /\ ret[1].rrCache[1].cleaned
          /\ ~ret[1].rrCache[1].fromStore
          /\ ~ret[1].rrCache[1].isBackup
          /\ Cacheable(ret[1].rrCache[1])
    /\ h[1].saved = "ok" => store[ID(q[1])] = ret[1].rrCache
    /\ \A k \in Keys : store[k] # None => (h[1].saved = "ok" /\ k = ID(q[1]))

\* a response was saved although an oldCache was at hand
SavePreconditionReached ==
    /\ pc[1] = "done"
    /\ cache[1] # None
    /\ h[1].saved = "ok"
    /\ store[ID(q[1])] = ret[1].rrCache

\* the error is none of those the loop's switch names before its default
Unclassified(err) ==
    /\ err # NoErr
    /\ ~Is(err, ErrNotFound)
    /\ ~Is(err, ErrBlocked)
    /\ ~Is(err, ErrContinue)
    /\ ~Is(err, ErrTimeout)
    /\ ~Cancelled(err)
    /\ ~Is(err, ErrShuttingDown)

\* C20 (failure attribution): within resolveAndCache, ReportFailure is called
\* on a resolver only after its Conn.Query returned ErrTimeout or an
\* unclassified error, never for ErrNotFound, ErrBlocked, ErrContinue,
\* cancellation, deadline, ErrShuttingDown or the offline outcome;
\* ResetFailure is called at most once per call and only on the resolver whose
\* response was elected (nil error, a response, and RCode NoError or tryAll
\* false).
FailureAttribution ==
    /\ h[1].fx = "report" =>
          /\ Is(run[1].err, ErrTimeout) \/ Unclassified(run[1].err)
          /\ h[1].ended \notin {"offlineQ", "terminal"}
          /\ h[1].fxOn \in failing
    /\ h[1].resets <= 1
    /\ h[1].resets = 1 => h[1].fx = "reset"
    /\ h[1].fx = "reset" =>
          /\ h[1].ended = "elected"
          /\ run[1].err = NoErr
          /\ run[1].rrCache # None
          /\ run[1].rrCache[1].rcode = "Success" \/ ~run[1].tryAll
          /\ h[1].fxOn = run[1].resolvers[run[1].idx]
          /\ h[1].fxOn = run[1].rrCache[1].resolver
          /\ h[1].fxOn \notin failing

\* in pass 1 a resolver reported as failing in pass 0 answered and was elected
FailureAttributionReached ==
    /\ pc[1] = "done"
    /\ h[1].fx = "reset"
    /\ h[1].elected = 1
    /\ h[1].nq >= 2

\* a Resolve call has returned an error
ResolveFailed(p) ==
    /\ pc[p] = "done"
    /\ h[p].kind = "resolve"
    /\ ret[p].err # NoErr

ProbeReturns ==
    /\ pc[1] = "done"
    /\ h[1].kind = "probe"
    /\ pc'[1] = "probed"

\* the error is one testConnectivity takes for an answer
ProbeAnswered(err) ==
    Is(err, ErrNotFound) \/ Is(err, ErrBlocked) \/ Is(err, ErrNoCompliance)

\* C16 (probe success flag): testConnectivity returns ok = false exactly when
\* the FQDN is empty or resolveAndCache returned an error that wraps none of
\* ErrNotFound, ErrBlocked, ErrNoCompliance; in every other outcome ok = true,
\* and ips is non-empty only when err is nil.
ProbeSuccessFlag ==
    [][/\ ProbeReturns =>
            /\ q[1].fqdn # ""
            /\ ~ret'[1].ok <=> (ret[1].err # NoErr /\ ~ProbeAnswered(ret[1].err))
            /\ ret'[1].ips # NoIPs => ret'[1].err = NoErr
       /\ (pc[1] = "idle" /\ pc'[1] = "probed") =>
            /\ q'[1].fqdn = ""
            /\ ~ret'[1].ok
            /\ ret'[1].ips = NoIPs
       /\ (pc[1] = "idle" /\ pc'[1] = "rac") => q'[1].fqdn # ""]_vars

\* the probe failed because every resolver in scope timed out
ProbeSuccessFlagReached ==
    /\ pc[1] = "probed"
    /\ h[1].ended = "exhausted"
    /\ h[1].nq > 1
    /\ Is(ret[1].err, ErrTimeout)
    /\ ~ret[1].ok

\* C18 (no orphaned registry entry): for every interleaving of
\* deduplicateRequest and finish calls on a key, every registry entry belongs
\* to an owner whose finish has not yet run, and once every owner for the key
\* has run finish the registry holds no entry for that key.
NoOrphanedEntry ==
    \A k \in Keys :
        /\ dupReqMap[k] # 0 =>
              /\ dd[dupReqMap[k]].held
              /\ dd[dupReqMap[k]].key = k
        /\ Owners(k) = {} => dupReqMap[k] = 0

\* a status that superseded another was itself superseded, its superseder has
\* finished and emptied the registry, and it is still to finish
NoOrphanedEntryReached ==
    \E k \in Keys : \E o \in Owners(k) :
        /\ dd[o].gen >= 1
        /\ dd[o].superseded
        /\ dupReqMap[k] = 0

\* the calls that have a Conn.Query for key k in flight
InFlight(k) == {p \in Procs : pc[p] = "query" /\ ID(q[p]) = k}

\* those of them that did the request as the owner of the registered status
OwnersInFlight(k) ==
    {p \in InFlight(k) \cap Callers : dd[p].held /\ ~dd[p].superseded}

\* C17 (one upstream request in flight per key), as stated: at every instant,
\* among all concurrent Resolve calls with caching enabled for the same
\* q.ID(), at most one Conn.Query for that ID is in flight.
OneRequestInFlight ==
    \A k \in Keys : Cardinality(InFlight(k)) <= 1

\* C17 (one upstream request in flight per key), amended: at every instant and
\* for every q.ID(), at most one Conn.Query in flight for that ID belongs to a
\* Resolve call that owns a dedupe status not marked superseded; every other
\* one in flight belongs to an owner that was superseded at or after its
\* waitUntil, or to a call that got nil from deduplicateRequest.
OneOwnerInFlight ==
    \A k \in Keys :
        /\ Cardinality(OwnersInFlight(k)) <= 1
        /\ \A p \in (InFlight(k) \cap Callers) \ OwnersInFlight(k) :
              \/ dd[p].held /\ dd[p].superseded /\ now >= dd[p].waitUntil
              \/ ~dd[p].held

\* two Conn.Query for one key in flight: the owner's and a superseded owner's
OneOwnerInFlightReached ==
    \E k \in Keys : \E p1, p2 \in InFlight(k) \cap Callers :
        /\ p1 \in OwnersInFlight(k)
        /\ dd[p2].held /\ dd[p2].superseded

\* Resolve is called and runs up to its first return or suspension
ResolveStep ==
    /\ pc[1] = "idle"
    /\ pc'[1] # "idle"
    /\ h'[1].kind = "resolve"

\* the step returned the stored entry with RequestingNew set, made no
\* Conn.Query, and started the worker on resolveAndCache(q, nil)
SoonHit ==
    /\ pc'[1] = "done"
    /\ ret'[1].err = NoErr
    /\ store[ID(q'[1])] # None
    /\ ret'[1].rrCache = Some([store[ID(q'[1])][1] EXCEPT
                                 !.fromStore = TRUE, !.requestingNew = TRUE])
    /\ h'[1].nq = 0
    /\ pc[Worker] = "idle"
    /\ pc'[Worker] = "rac"
    /\ h'[Worker].kind = "async"
    /\ q'[Worker] = q'[1]
    /\ cache'[Worker] = None

\* the worker was answered NoError with a cacheable response
WorkerAnswered ==
    /\ h[Worker].kind = "async"
    /\ h[Worker].elected >= 0
    /\ run[Worker].rrCache # None
    /\ run[Worker].rrCache[1].rcode = "Success"
    /\ Cacheable(run[Worker].rrCache[1])

\* C15 (expiring-soon refresh), the part on Resolve as stated: whenever
\* Resolve (NoCaching=false) finds a valid, unexpired entry that expires
\* soon, it returns that entry with RequestingNew=true without any
\* Conn.Query, and a background resolveAndCache(q, nil) is started.
RefreshOnEverySoonEntry ==
    [][(ResolveStep /\ h'[1].soon) => SoonHit]_vars

\* C15 (expiring-soon refresh), amended: when Resolve (NoCaching=false) finds
\* a valid, unexpired entry that expires soon, and the call is not the one
\* on which shouldResetCache trips, it returns that entry with
\* RequestingNew=true without waiting for any Conn.Query, and a background
\* resolveAndCache(q, nil) is started; with the worker's steps fair and
\* whatever the caller does, the background call returns, and if a resolver
\* answered it NoError with a cacheable response, Save was called for the key.
ExpiringSoonRefresh ==
    /\ [][(ResolveStep /\ h'[1].soonPass) => SoonHit]_vars
    /\ (pc[Worker] = "rac") ~> (pc[Worker] = "done")
    /\ [](WorkerAnswered => (pc[Worker] = "done" /\ h[Worker].saved # "no"))

\* Resolve has returned the entry that expires soon, and the worker it
\* started has saved a new one
ExpiringSoonRefreshReached ==
    /\ pc[1] = "done"
    /\ h[1].soonPass
    /\ ret[1].rrCache # None
    /\ ret[1].rrCache[1].requestingNew
    /\ pc[Worker] = "done"
    /\ WorkerAnswered
    /\ h[Worker].saved = "ok"
    /\ store[ID(q[1])] # None
    /\ store[ID(q[1])][1].life = "fresh"

\* call p is inside deduplicateRequest
InDedupe(p) == pc[p] \in {"dedupe", "waiting"}

\* C19 (dedupe wait terminates): every deduplicateRequest call eventually
\* returns even if the current owner never calls finish and the caller's
\* context is never cancelled: the backstop of a waiter lies at or after the
\* waitUntil of the status it waits for, so when it re-enters the registry
\* and finds an entry past its waitUntil it marks it superseded and returns
\* as the new owner; with finitely many callers no waiter waits forever.
DedupeWaitTerminates ==
    /\ [](\A p \in Callers :
            pc[p] = "waiting" => wt[p].at >= dd[wt[p].on].waitUntil)
    /\ [][\A p \in Callers :
            (pc[p] = "waiting" /\ pc'[p] = "dedupe") =>
                now >= dd[wt[p].on].waitUntil]_vars
    /\ [][\A p \in Callers :
            (pc[p] = "dedupe" /\ pc'[p] # "dedupe"
               /\ dupReqMap[ID(q[p])] # 0
               /\ now >= dd[dupReqMap[ID(q[p])]].waitUntil) =>
                /\ pc'[p] = "rac"
                /\ dd'[dupReqMap[ID(q[p])]].superseded
                /\ dupReqMap'[ID(q[p])] = p
                /\ dd'[p].held]_vars
    /\ \A p \in Callers : InDedupe(p) ~> ~InDedupe(p)

\* a waiter has timed out, re-entered the registry and superseded an owner
\* that still has not finished
DedupeWaitTerminatesReached ==
    \E p, o \in Callers :
        /\ p # o
        /\ pc[p] = "rac"
        /\ dd[p].held /\ dd[p].gen = 1 /\ dupReqMap[dd[p].key] = p
        /\ dd[o].held /\ dd[o].superseded
        /\ pc[o] = "rac"

\* call p of Resolve or resolveAndCache has returned
Returned(p) ==
    /\ pc[p] \in {"finish", "done"}
    /\ h[p].kind \in {"resolve", "direct", "async"}

\* the call came past the resolver loop and returned what it got from it, so
\* it called Clean() on it
ReturnedLoopResult(p) ==
    /\ Returned(p)
    /\ h[p].ended \in {"elected", "exhausted"}
    /\ ret[p].err = NoErr
    /\ ret[p].rrCache # None
    /\ ~ret[p].rrCache[1].isBackup

\* C21 (nil error implies a result): whenever Resolve or resolveAndCache
\* returns a nil error, the returned RRCache is non-nil, for every resolver
\* outcome including Conn.Query returning (nil, nil), all resolvers being
\* skipped or exhausted, and oldCache being nil; and the response that
\* Clean() and Cacheable() are called on after the resolver loop is not nil.
NilErrorImpliesResult ==
    \A p \in Procs :
        /\ (Returned(p) /\ ret[p].err = NoErr) => ret[p].rrCache # None
        /\ ReturnedLoopResult(p) =>
              /\ run[p].err = NoErr
              /\ run[p].rrCache # None
              /\ ret[p].rrCache[1] = Clean(run[p].rrCache[1])

\* Resolve went through every resolver twice with no oldCache, the last
\* Conn.Query returned (nil, nil), and Resolve returned ErrNotFound
NilErrorImpliesResultReached ==
    /\ Returned(1)
    /\ h[1].kind = "resolve"
    /\ h[1].ended = "exhausted"
    /\ h[1].nq >= 1
    /\ cache[1] = None
    /\ run[1].rrCache = None
    /\ run[1].err = NoErr
    /\ ret[1] = [rrCache |-> None, err |-> ErrNotFound]

====
